---- MODULE Spec2Model ----
(***************************************************************************)
(* Payment pipeline of AkylbekSul/go-project.                              *)
(*   A  api-gateway           POST /payments, idempotency middleware       *)
(*   B  payment-orchestrator  payment.created consumer, state machine      *)
(*   C  fraud-service         fraud.check subscriber, rules and velocity   *)
(*   D  ledger-service        payment.state.changed consumer, ledger       *)
(* Tables are sets of rows; the constraints of the schema (PRIMARY KEY,    *)
(* UNIQUE, ON CONFLICT, WHERE) are written out in the operators that model *)
(* the statements.  Each component has its own specification.              *)
(***************************************************************************)
EXTENDS Integers, Sequences, FiniteSets, TLC

\* ------------------------------------------------------------------ bounds
NumReq == 2          \* concurrent HTTP requests at the gateway
MaxId == 2           \* uuid.New() values drawn by the gateway
NumPaymentsB == 1    \* payments whose payment.created event the orchestrator reads
NumPaymentsD == 2    \* payments whose state changes the ledger reads
MaxRedeliver == 1    \* times the ledger's consumer is set back to an earlier offset
MaxBurst == 7        \* fraud.check requests of customer c1 within one hour
MaxApply == 2        \* recordEntry transactions per payment, where it is applied alone
NumPartitions == 2   \* partitions of the topic payment.state.changed
MaxOther == 2        \* fraud.check requests of any other customer within one hour

\* --------------------------------------------------------------- variables
VARIABLES
  payments,        \* A: table payments
  idemCache,       \* A: redis, keys idempotency:{key}
  createdLog,      \* topic payment.created
  req,             \* A: the requests in progress
  returned,        \* A: history of the successful responses sent to clients
  nextId,          \* A: next unused uuid
  payment_states,  \* B: table payment_states, rows in insertion order
  locks,           \* B: redis, keys payment_lock:{payment_id}
  stateLog,        \* topic payment.state.changed: per message key (the
                   \* payment id), the records in the order they were written
  worker,          \* B: the orchestrator instances, each in processPayment or idle
  stateHist,       \* B: history of the values of each payment's state column
  accounts,        \* D: table accounts
  ledger_entries,  \* D: table ledger_entries
  consumerD,       \* D: the consumer's position on payment.state.changed
  postings,        \* D: history of the posting transactions, per payment
  velocity,        \* C: redis, keys fraud:velocity:{customer_id}
  fraud,           \* C: the subscriber's handler, in handleFraudCheckRequest or idle
  fraud_decisions, \* C: table fraud_decisions, the rows written for the
                   \* request handled last (earlier rows are never read again)
  burst,           \* C: history, per customer, of the requests of the current hour
  partitions,      \* topic payment.state.changed: per partition, the records
                   \* in offset order
  leastBytes,      \* B: the Kafka writer's balancer, bytes sent per partition
  readerD,         \* D: the reader's offset per partition, and the history
                   \* of the states it has read, per payment
  faults           \* environment: whether database, redis and Kafka calls
                   \* may fail (fixed by the initial state)

vars == <<payments, idemCache, createdLog, req, returned, nextId,
          payment_states, locks, stateLog, worker, stateHist,
          accounts, ledger_entries, consumerD, postings,
            velocity, fraud, fraud_decisions, burst,
            partitions, leastBytes, readerD, faults>>

\* what the actions of one component never touch
frameA == <<payment_states, locks, stateLog, worker, stateHist,
            accounts, ledger_entries, consumerD, postings,
            velocity, fraud, fraud_decisions, burst,
            partitions, leastBytes, readerD, faults>>
frameB == <<payments, idemCache, req, returned, nextId,
            accounts, ledger_entries, consumerD, postings,
            velocity, fraud, fraud_decisions, burst,
            partitions, leastBytes, readerD, faults>>
frameD == <<payments, idemCache, createdLog, req, returned, nextId,
            payment_states, locks, worker, stateHist,
            velocity, fraud, fraud_decisions, burst,
            partitions, leastBytes, readerD, faults>>
frameLog == <<payments, idemCache, createdLog, req, returned, nextId,
              payment_states, locks, stateLog, worker,
              accounts, ledger_entries, consumerD, postings,
              velocity, fraud, fraud_decisions, burst, faults>>
frameC == <<payments, idemCache, createdLog, req, returned, nextId,
            payment_states, locks, stateLog, worker, stateHist,
            accounts, ledger_entries, consumerD, postings,
            partitions, leastBytes, readerD, faults>>

\* The results a call to the database, to redis or to Kafka can have: TRUE
\* (done) and, where calls may fail, FALSE (an error, nothing done).
CallResults == IF faults THEN BOOLEAN ELSE {TRUE}

NoKey == ""
Keys == {"k1", "k2"}
Reqs == 1..NumReq
Amounts == {50}
NoAmount == 0

\* ====================================================== A: api-gateway ====

\* redis key of the idempotency cache entry
IdemKeyShared(key) == <<"idempotency", NoKey>>
IdemKey(key) == <<"idempotency", key>>

\* redisClient.Get: the values stored under k (none, or one)
RedisGet(kv, k) == {e.v : e \in {x \in kv : x.k = k}}

\* redisClient.Set: overwrite
RedisSet(kv, k, v) == {x \in kv : x.k # k} \cup {[k |-> k, v |-> v]}

\* SELECT ... FROM payments WHERE idempotency_key = $1
GetByIdempotencyKey(rows, key) == {p \in rows : p.idempotency_key = key}

\* INSERT INTO payments: id is the PRIMARY KEY, idempotency_key is UNIQUE.
\* TRUE when the insert violates neither.
CreateAllowedNoUnique(rows, p) == \A q \in rows : q.id # p.id
CreateAllowed(rows, p) ==
  \A q \in rows : q.id # p.id /\ q.idempotency_key # p.idempotency_key

\* UPDATE payments SET status = $1 WHERE id = $2
UpdateStatus(rows, id, status) ==
  {IF p.id = id THEN [p EXCEPT !.status = status] ELSE p : p \in rows}

\* rejected: the response this client received last was a 400
IdleReq == [pc |-> "idle", key |-> NoKey, amount |-> NoAmount, id |-> 0, miss |-> FALSE,
            rejected |-> FALSE]

\* created_at of an intent: the gateway fills Payment.CreatedAt with time.Now()
\* and leaves the column out of the INSERT, so the row carries the database's
\* CURRENT_TIMESTAMP; two readings of two clocks, which nothing makes equal.
AppNow == "time.Now()"
DbNow == "CURRENT_TIMESTAMP"

\* http.StatusBadRequest
IsBadRequestOrCreated(code) == code \in {400, 201}
IsBadRequest(code) == code = 400

\* c.JSON(code, payment): the response leaves, the request is over.  The
\* history keeps the successful ones (200 replay, 201 created) with the
\* body they carried.
Respond(r, code, via, p) ==
  /\ returned' = IF code \in {200, 201}
                 THEN returned \cup {[key |-> req[r].key, via |-> via, id |-> p.id,
                                      status |-> p.status, created_at |-> p.created_at]}
                 ELSE returned
  /\ req' = [req EXCEPT ![r] = [IdleReq EXCEPT !.rejected = IsBadRequest(code)]]

NoPayment == [id |-> 0, status |-> "", created_at |-> ""]

\* A client sends POST /payments; the middleware reads the header.
\* An absent Idempotency-Key is answered 400 at once.
ReceiveRequest(r) ==
  /\ req[r].pc = "idle"
  /\ \E key \in Keys \cup {NoKey} :
       IF key = NoKey
       THEN Respond(r, 400, "header", NoPayment)
       ELSE /\ req' = [req EXCEPT ![r] = [IdleReq EXCEPT !.pc = "mwCache", !.key = key]]
            /\ returned' = returned
  /\ UNCHANGED <<payments, idemCache, createdLog, nextId>>
  /\ UNCHANGED frameA

\* idempotencyMiddleware: redisClient.Get(idempotency:{key}); a hit is
\* answered 200 with the cached intent, a miss or a redis error goes on.
MiddlewareCache(r) ==
  /\ req[r].pc = "mwCache"
  /\ \E redisOk \in CallResults :
       LET hit == RedisGet(idemCache, IdemKey(req[r].key)) IN
       IF redisOk /\ hit # {}
       THEN \E p \in hit : Respond(r, 200, "cache", p)
       ELSE /\ req' = [req EXCEPT ![r].pc = "mwStore"]
            /\ returned' = returned
  /\ UNCHANGED <<payments, idemCache, createdLog, nextId>>
  /\ UNCHANGED frameA

\* idempotencyMiddleware: the look-up by idempotency_key; a row is answered
\* 200, no row or a query error calls the handler (c.Next()).
MiddlewareStore(r) ==
  /\ req[r].pc = "mwStore"
  /\ \E dbOk \in CallResults :
       LET found == GetByIdempotencyKey(payments, req[r].key) IN
       IF dbOk /\ found # {}
       THEN \E p \in found : Respond(r, 200, "store", [id |-> p.id, status |-> p.status,
                                                         created_at |-> p.created_at])
       ELSE /\ req' = [req EXCEPT ![r].pc = "handler", ![r].miss = dbOk]
            /\ returned' = returned
  /\ UNCHANGED <<payments, idemCache, createdLog, nextId>>
  /\ UNCHANGED frameA

\* createPayment: bind the body (400 when a required field is missing),
\* draw a uuid, INSERT (500 on a constraint violation or a database error).
CreatePaymentInsert(r) ==
  /\ req[r].pc = "handler"
  /\ \E amount \in Amounts \cup {NoAmount} :
     IF amount = NoAmount
     THEN /\ Respond(r, 400, "body", NoPayment)
          /\ UNCHANGED <<payments, nextId>>
     ELSE /\ nextId <= MaxId
          /\ nextId' = nextId + 1
          /\ LET p == [id |-> nextId, amount |-> amount, status |-> "NEW",
                       idempotency_key |-> req[r].key, created_at |-> DbNow] IN
             \E dbOk \in CallResults :
               IF dbOk /\ CreateAllowed(payments, p)
               THEN /\ payments' = payments \cup {p}
                    /\ req' = [req EXCEPT ![r].pc = "cache", ![r].amount = amount,
                                          ![r].id = p.id]
                    /\ returned' = returned
               ELSE /\ Respond(r, 500, "insert", NoPayment)
                    /\ UNCHANGED payments
  /\ UNCHANGED <<idemCache, createdLog>>
  /\ UNCHANGED frameA

\* createPayment: redisClient.Set(idempotency:{key}, payment, 24h); the
\* result of Set is not looked at.
CreatePaymentCache(r) ==
  /\ req[r].pc = "cache"
  /\ \E redisOk \in CallResults :
       idemCache' = IF redisOk
                    THEN RedisSet(idemCache, IdemKey(req[r].key),
                                  [id |-> req[r].id, status |-> "NEW",
                                   created_at |-> AppNow])
                    ELSE idemCache
  /\ req' = [req EXCEPT ![r].pc = "publish"]
  /\ UNCHANGED <<payments, createdLog, returned, nextId>>
  /\ UNCHANGED frameA

\* createPayment: kafka.Message{Key: []byte(payment.ID), Value: eventJSON},
\* the event of the payment of request r
CreatedRecordFreshKey(r) ==
  [key |-> nextId, payment_id |-> req[r].id, amount |-> req[r].amount,
   status |-> "NEW"]
CreatedRecord(r) ==
  [key |-> req[r].id, payment_id |-> req[r].id, amount |-> req[r].amount,
   status |-> "NEW"]

\* createPayment: kafkaWriter.WriteMessages; an error is logged only, and
\* the response is 201 either way.
CreatePaymentPublish(r) ==
  /\ req[r].pc = "publish"
  /\ \E kafkaOk \in CallResults :
       createdLog' = IF kafkaOk
                     THEN Append(createdLog, CreatedRecord(r))
                     ELSE createdLog
  /\ Respond(r, 201, "created", [id |-> req[r].id, status |-> "NEW",
                                  created_at |-> AppNow])
  /\ UNCHANGED <<payments, idemCache, nextId>>
  /\ UNCHANGED frameA

\* confirmPayment: POST /payments/:id/confirm
ConfirmPayment(id) ==
  /\ \E p \in payments : p.id = id /\ p.status # "CONFIRMED"
  /\ payments' = UpdateStatus(payments, id, "CONFIRMED")
  /\ UNCHANGED <<idemCache, createdLog, req, returned, nextId>>
  /\ UNCHANGED frameA

\* The 24 hour expiry of a cache entry.
ExpireIdemKey(k) ==
  /\ \E e \in idemCache : e.k = k
  /\ idemCache' = {e \in idemCache : e.k # k}
  /\ UNCHANGED <<payments, createdLog, req, returned, nextId>>
  /\ UNCHANGED frameA


\* ============================================== B: payment-orchestrator ====

StateNew == "NEW"
StateAuthPending == "AUTH_PENDING"
StateAuthorized == "AUTHORIZED"
StateCaptured == "CAPTURED"
StateSucceeded == "SUCCEEDED"
StateFailed == "FAILED"
StateCanceled == "CANCELED"

Null == "null"
Decisions == {"approve", "deny", "manual_review"}
\* the instances of the consumer group payment-orchestrator
Workers == {"b1", "b2"}
PaymentIdsB == 1..NumPaymentsB
PaymentIdsD == 1..NumPaymentsD

LockKey(p) == <<"payment_lock", p>>

\* INSERT INTO payment_states (payment_id, state, previous_state)
\* VALUES ($1, 'NEW', '') ON CONFLICT (payment_id) DO NOTHING
InsertStateUpsert(rows, p) ==
  LET new == [payment_id |-> p, state |-> StateNew, previous_state |-> "",
              fraud_decision |-> Null] IN
  IF \E i \in DOMAIN rows : rows[i].payment_id = p
  THEN [i \in DOMAIN rows |-> IF rows[i].payment_id = p THEN new ELSE rows[i]]
  ELSE Append(rows, new)
InsertStateNoKey(rows, p) ==
  Append(rows, [payment_id |-> p, state |-> StateNew, previous_state |-> "",
                fraud_decision |-> Null])
InsertState(rows, p) ==
  IF \E i \in DOMAIN rows : rows[i].payment_id = p
  THEN rows
  ELSE Append(rows, [payment_id |-> p, state |-> StateNew, previous_state |-> "",
                     fraud_decision |-> Null])

\* The rows matched by WHERE payment_id = $3 AND state = $4
CasMatchNoGuard(rows, p, from) == {i \in DOMAIN rows : rows[i].payment_id = p}
CasMatch(rows, p, from) ==
  {i \in DOMAIN rows : rows[i].payment_id = p /\ rows[i].state = from}

\* UPDATE payment_states SET state = $1, previous_state = $2 WHERE ...
UpdateState(rows, hit, from, to) ==
  [i \in DOMAIN rows |->
     IF i \in hit THEN [rows[i] EXCEPT !.state = to, !.previous_state = from]
     ELSE rows[i]]

\* UPDATE payment_states SET fraud_decision = $1 WHERE payment_id = $2
UpdateFraudDecision(rows, p, d) ==
  [i \in DOMAIN rows |->
     IF rows[i].payment_id = p THEN [rows[i] EXCEPT !.fraud_decision = d]
     ELSE rows[i]]

\* transitionState: the guarded UPDATE; when a row was affected, the event is
\* published (the result of WriteMessages is dropped).  The UPDATE fails as
\* a whole when the database does (dbOk = FALSE).
TransitionHit(p, from, dbOk) ==
  IF dbOk THEN CasMatch(payment_states, p, from) ELSE {}

transitionStateWriteAlways(p, from, to, dbOk, kafkaOk) ==
  LET hit == TransitionHit(p, from, dbOk) IN
  /\ payment_states' = UpdateState(payment_states, hit, from, to)
  /\ stateLog' = IF kafkaOk
                 THEN [stateLog EXCEPT ![p] = Append(@, [payment_id |-> p, state |-> to,
                                                         previous_state |-> from])]
                 ELSE stateLog
  /\ stateHist' = IF hit # {}
                  THEN [stateHist EXCEPT ![p] = Append(@, to)]
                  ELSE stateHist
transitionState(p, from, to, dbOk, kafkaOk) ==
  LET hit == TransitionHit(p, from, dbOk) IN
  /\ payment_states' = UpdateState(payment_states, hit, from, to)
  /\ stateLog' = IF hit # {} /\ kafkaOk
                 THEN [stateLog EXCEPT ![p] = Append(@, [payment_id |-> p, state |-> to,
                                                         previous_state |-> from])]
                 ELSE stateLog
  /\ stateHist' = IF hit # {}
                  THEN [stateHist EXCEPT ![p] = Append(@, to)]
                  ELSE stateHist

\* The results the WriteMessages call of transitionState can have; there is
\* no call when the UPDATE failed or matched no row.
WriteResults(p, from, dbOk) ==
  IF TransitionHit(p, from, dbOk) # {} THEN CallResults ELSE {TRUE}

IdleWorker == [pc |-> "idle", pid |-> 0, decision |-> Null, holds |-> FALSE]

\* consumePaymentEvents reads a message (any message of the topic: delivery
\* is at least once) and processPayment takes the lock with SetNX; when the
\* key exists or redis fails, processPayment returns an error.
\* The field holds of a task is history: the key in redis is the one this
\* task set (redis itself stores "1" for every task).  It is kept in the
\* environment where no call fails, which is where the lock is studied.
\* KeyGone: the key of payment p has left redis.
KeyGone(t, p) == IF t.pid = p THEN [t EXCEPT !.holds = FALSE] ELSE t

ProcessAcquire(w) ==
  /\ worker[w].pc = "idle"
  /\ \E i \in DOMAIN createdLog, redisOk \in CallResults :
       LET p == createdLog[i].payment_id IN
       IF redisOk /\ LockKey(p) \notin locks
       THEN /\ locks' = locks \cup {LockKey(p)}
            /\ worker' = [worker EXCEPT ![w].pc = "insert", ![w].pid = p,
                                        ![w].holds = ~faults]
       ELSE UNCHANGED <<locks, worker>>
  /\ UNCHANGED <<createdLog, payment_states, stateLog, stateHist>>
  /\ UNCHANGED frameB

\* processPayment: save the initial state
ProcessInsert(w) ==
  /\ worker[w].pc = "insert"
  /\ \E dbOk \in CallResults :
       IF dbOk
       THEN /\ payment_states' = InsertState(payment_states, worker[w].pid)
            /\ stateHist' = IF Len(payment_states') > Len(payment_states)
                            THEN [stateHist EXCEPT ![worker[w].pid] = Append(@, StateNew)]
                            ELSE stateHist
            /\ worker' = [worker EXCEPT ![w].pc = "toPending"]
       ELSE /\ worker' = [worker EXCEPT ![w].pc = "release"]
            /\ UNCHANGED <<payment_states, stateHist>>
  /\ UNCHANGED <<createdLog, locks, stateLog>>
  /\ UNCHANGED frameB

\* processPayment: NEW -> AUTH_PENDING; an error (also zero rows) returns
ProcessToPending(w) ==
  /\ worker[w].pc = "toPending"
  /\ \E dbOk \in CallResults :
     \E kafkaOk \in WriteResults(worker[w].pid, StateNew, dbOk) :
       /\ transitionState(worker[w].pid, StateNew, StateAuthPending, dbOk, kafkaOk)
       /\ worker' = [worker EXCEPT ![w].pc =
            IF TransitionHit(worker[w].pid, StateNew, dbOk) # {} THEN "fraud" ELSE "release"]
  /\ UNCHANGED <<createdLog, locks>>
  /\ UNCHANGED frameB

\* processPayment: nc.Request("fraud.check", ..., 5s): a decoded reply, a
\* reply that does not decode (return err), or a timeout / bus error.
ProcessFraud(w) ==
  /\ worker[w].pc = "fraud"
  /\ \E outcome \in Decisions \cup {"timeout", "undecodable"} :
       worker' = [worker EXCEPT
         ![w].pc = CASE outcome = "timeout" -> "timeoutFail"
                     [] outcome = "undecodable" -> "release"
                     [] OTHER -> "save",
         ![w].decision = IF outcome \in Decisions THEN outcome ELSE Null]
  /\ UNCHANGED <<createdLog, payment_states, locks, stateLog, stateHist>>
  /\ UNCHANGED frameB

\* processPayment, after a timeout: AUTH_PENDING -> FAILED, return err
ProcessTimeoutFail(w) ==
  /\ worker[w].pc = "timeoutFail"
  /\ \E dbOk \in CallResults :
     \E kafkaOk \in WriteResults(worker[w].pid, StateAuthPending, dbOk) :
       transitionState(worker[w].pid, StateAuthPending, StateFailed, dbOk, kafkaOk)
  /\ worker' = [worker EXCEPT ![w].pc = "release"]
  /\ UNCHANGED <<createdLog, locks>>
  /\ UNCHANGED frameB

\* processPayment: fraudResp.Decision == "approve"
IsApproveOrReview(decision) == decision \in {"approve", "manual_review"}
IsApprove(decision) == decision = "approve"

\* processPayment: save the fraud decision (the result of Exec is dropped)
ProcessSaveDecision(w) ==
  /\ worker[w].pc = "save"
  /\ \E dbOk \in CallResults :
       payment_states' = IF dbOk
                         THEN UpdateFraudDecision(payment_states, worker[w].pid,
                                                  worker[w].decision)
                         ELSE payment_states
  /\ worker' = [worker EXCEPT
       ![w].pc = IF IsApprove(worker[w].decision) THEN "authorize" ELSE "fail",
       ![w].decision = Null]
  /\ UNCHANGED <<createdLog, locks, stateLog, stateHist>>
  /\ UNCHANGED frameB

\* processPayment, approve: the three transitions, their results dropped
ProcessAuthorize(w) ==
  /\ worker[w].pc = "authorize"
  /\ \E dbOk \in CallResults :
     \E kafkaOk \in WriteResults(worker[w].pid, StateAuthPending, dbOk) :
       transitionState(worker[w].pid, StateAuthPending, StateAuthorized, dbOk, kafkaOk)
  /\ worker' = [worker EXCEPT ![w].pc = "capture"]
  /\ UNCHANGED <<createdLog, locks>>
  /\ UNCHANGED frameB

ProcessCapture(w) ==
  /\ worker[w].pc = "capture"
  /\ \E dbOk \in CallResults :
     \E kafkaOk \in WriteResults(worker[w].pid, StateAuthorized, dbOk) :
       transitionState(worker[w].pid, StateAuthorized, StateCaptured, dbOk, kafkaOk)
  /\ worker' = [worker EXCEPT ![w].pc = "succeed"]
  /\ UNCHANGED <<createdLog, locks>>
  /\ UNCHANGED frameB

ProcessSucceed(w) ==
  /\ worker[w].pc = "succeed"
  /\ \E dbOk \in CallResults :
     \E kafkaOk \in WriteResults(worker[w].pid, StateCaptured, dbOk) :
       transitionState(worker[w].pid, StateCaptured, StateSucceeded, dbOk, kafkaOk)
  /\ worker' = [worker EXCEPT ![w].pc = "release"]
  /\ UNCHANGED <<createdLog, locks>>
  /\ UNCHANGED frameB

\* processPayment, any other decision: AUTH_PENDING -> FAILED
ProcessFail(w) ==
  /\ worker[w].pc = "fail"
  /\ \E dbOk \in CallResults :
     \E kafkaOk \in WriteResults(worker[w].pid, StateAuthPending, dbOk) :
       transitionState(worker[w].pid, StateAuthPending, StateFailed, dbOk, kafkaOk)
  /\ worker' = [worker EXCEPT ![w].pc = "release"]
  /\ UNCHANGED <<createdLog, locks>>
  /\ UNCHANGED frameB

\* processPayment returns: defer redisClient.Del(ctx, lockKey)
ProcessRelease(w) ==
  /\ worker[w].pc = "release"
  /\ locks' = locks \ {LockKey(worker[w].pid)}
  /\ worker' = [v \in Workers |->
                 IF v = w THEN IdleWorker ELSE KeyGone(worker[v], worker[w].pid)]
  /\ UNCHANGED <<createdLog, payment_states, stateLog, stateHist>>
  /\ UNCHANGED frameB

\* The 30 second expiry of a lock key.
LockExpire(p) ==
  /\ LockKey(p) \in locks
  /\ locks' = locks \ {LockKey(p)}
  /\ worker' = [v \in Workers |-> KeyGone(worker[v], p)]
  /\ UNCHANGED <<createdLog, payment_states, stateLog, stateHist>>
  /\ UNCHANGED frameB

\* An instance dies inside processPayment and restarts: the deferred Del
\* does not run.
WorkerCrash(w) ==
  /\ worker[w].pc # "idle"
  /\ worker' = [worker EXCEPT ![w] = IdleWorker]
  /\ UNCHANGED <<createdLog, payment_states, locks, stateLog, stateHist>>
  /\ UNCHANGED frameB

\* rows.Scan into a Go string: a NULL column cannot be converted
\* ("converting NULL to string is unsupported"), any other value can.
ScanString(v) == v # Null

\* getPaymentState, GET /payments/:id/state, with the database answering:
\* the status code and, for 200, the state in the body.  No row is
\* sql.ErrNoRows (404); any other error of QueryRow(...).Scan is 500.
getPaymentState(rows, id) ==
  LET found == {i \in DOMAIN rows : rows[i].payment_id = id} IN
  IF found = {} THEN [code |-> 404, state |-> ""]
  ELSE LET row == rows[CHOOSE i \in found : TRUE] IN
       IF ScanString(row.state) /\ ScanString(row.previous_state)
          /\ ScanString(row.fraud_decision)
       THEN [code |-> 200, state |-> row.state]
       ELSE [code |-> 500, state |-> ""]

\* ====================================================== D: ledger-service ====

\* the account id "platform-001"
PlatformAccount == <<"platform", 1>>
PaymentAmount == 100
PlatformFee == 2
MerchantAmount == PaymentAmount - PlatformFee

\* event.PaymentID[:8]: the first eight characters of the payment id.  Ids
\* are numbered so that 2k-1 and 2k begin with the same eight characters.
Prefix8(p) == (p + 1) \div 2

\* "merchant-" + event.PaymentID[:8]
MerchantAccountOf(p) == <<"merchant", Prefix8(p)>>

\* event.PaymentID + "-" + event.State, then "-merchant" or "-platform"
EntryKey(p, state, role) == <<p, state, role>>

\* INSERT INTO accounts (id, type, balance) VALUES ($1, 'merchant', 0)
\* ON CONFLICT (id) DO NOTHING
EnsureMerchantAccount(accts, id) ==
  IF \E a \in accts : a.id = id THEN accts
  ELSE accts \cup {[id |-> id, type |-> "merchant", balance |-> 0]}

\* SELECT balance FROM accounts WHERE id = $1 FOR UPDATE
SelectBalance(accts, id) == {a.balance : a \in {x \in accts : x.id = id}}

\* BIGSERIAL: the next id of ledger_entries
RECURSIVE MaxEntryId(_)
MaxEntryId(entries) ==
  IF entries = {} THEN 0
  ELSE LET e == CHOOSE x \in entries : TRUE
           m == MaxEntryId(entries \ {e}) IN
       IF e.id > m THEN e.id ELSE m

\* INSERT INTO ledger_entries (...) ON CONFLICT (idempotency_key) DO NOTHING
InsertEntryNoConflict(entries, row) ==
  entries \cup {[row EXCEPT !.id = MaxEntryId(entries) + 1]}
InsertEntry(entries, row) ==
  IF \E e \in entries : e.idempotency_key = row.idempotency_key
  THEN entries
  ELSE entries \cup {[row EXCEPT !.id = MaxEntryId(entries) + 1]}

\* UPDATE accounts SET balance = $1 WHERE id = $2
UpdateBalance(accts, id, balance) ==
  {IF a.id = id THEN [a EXCEPT !.balance = balance] ELSE a : a \in accts}

\* The statement of the posting transaction that the database fails, if
\* any: the first failure ends the transaction, so one is enough.
FailPoints ==
  {<<"none">>, <<"begin">>, <<"commit">>}
    \cup ({"merchant", "platform"} \X {"select", "insert", "update"})

PostingFailures == IF faults THEN FailPoints ELSE {<<"none">>}

\* recordEntry inside the transaction tx = [accounts, entries, err]; role
\* names the call, failAt the statement that fails.  A SELECT of an absent
\* account fails with sql.ErrNoRows.
recordEntry(tx, role, accountID, paymentID, entryType, amount, idempotencyKey, failAt) ==
  LET found == SelectBalance(tx.accounts, accountID) IN
  IF tx.err \/ failAt = <<role, "select">> \/ found = {}
  THEN [tx EXCEPT !.err = TRUE]
  ELSE
    LET balance == CHOOSE b \in found : TRUE
        newBalance == IF entryType = "credit" THEN balance + amount ELSE balance - amount
        row == [id |-> 0, account_id |-> accountID, payment_id |-> paymentID,
                type |-> entryType, amount |-> amount, balance |-> newBalance,
                idempotency_key |-> idempotencyKey]
    IN
    IF failAt = <<role, "insert">> THEN [tx EXCEPT !.err = TRUE]
    ELSE IF failAt = <<role, "update">>
         THEN [tx EXCEPT !.err = TRUE, !.entries = InsertEntry(tx.entries, row)]
         ELSE [accounts |-> UpdateBalance(tx.accounts, accountID, newBalance),
               entries |-> InsertEntry(tx.entries, row),
               err |-> FALSE]

\* recordPaymentSuccess, the transaction: BeginTx, the two recordEntry calls,
\* Commit.  err = TRUE: the deferred Rollback undoes everything.
PostingTx(accts, entries, p, state, failAt) ==
  LET tx0 == [accounts |-> accts, entries |-> entries, err |-> failAt = <<"begin">>]
      tx1 == recordEntry(tx0, "merchant", MerchantAccountOf(p), p, "credit",
                         MerchantAmount, EntryKey(p, state, "merchant"), failAt)
      tx2 == recordEntry(tx1, "platform", PlatformAccount, p, "credit",
                         PlatformFee, EntryKey(p, state, "platform"), failAt)
  IN [tx2 EXCEPT !.err = @ \/ failAt = <<"commit">>]

\* The end of the transaction: tx.Commit() makes its writes the tables'
\* contents; after an error the deferred tx.Rollback() leaves the tables as
\* they were at BeginTx.
EndTxNoRollback(tx, accts0, entries0) ==
  [accounts |-> tx.accounts, entries |-> tx.entries]
EndTx(tx, accts0, entries0) ==
  IF tx.err
  THEN [accounts |-> accts0, entries |-> entries0]
  ELSE [accounts |-> tx.accounts, entries |-> tx.entries]

\* recordEntry applied on its own: one transaction with one call, the
\* arguments drawn from the accounts, the payments, both entry types and the
\* two amounts; each call has a key of its own.
EntryTypes == {"credit", "debit"}
EntryAmounts == {PlatformFee, MerchantAmount}
EntryAccounts == {PlatformAccount} \cup {MerchantAccountOf(p) : p \in PaymentIdsD}

ApplyEntry(accountID, paymentID, entryType, amount) ==
  /\ postings[paymentID] < MaxApply
  /\ LET tx0 == [accounts |-> accounts, entries |-> ledger_entries, err |-> FALSE]
         tx == recordEntry(tx0, "entry", accountID, paymentID, entryType, amount,
                           EntryKey(paymentID, postings[paymentID] + 1, "entry"),
                           <<"none">>)
         db == EndTx(tx, accounts, ledger_entries)
     IN /\ accounts' = db.accounts
        /\ ledger_entries' = db.entries
  /\ postings' = [postings EXCEPT ![paymentID] = @ + 1]
  /\ UNCHANGED <<stateLog, consumerD>>
  /\ UNCHANGED frameD

\* consumePaymentStateChanges: event.State == "SUCCEEDED"
ShouldPostTerminal(state) == state \in {StateSucceeded, StateFailed}
ShouldPost(state) == state = StateSucceeded

\* consumePaymentStateChanges: ReadMessage returns the next record of some
\* key and moves the offset on; a record with state SUCCEEDED goes to
\* recordPaymentSuccess, whose error is logged only.  recordPaymentSuccess
\* makes sure of the merchant account (outside the transaction, result
\* dropped), then runs the transaction; any failure rolls it back.

ConsumeStateChange(p) ==
  /\ consumerD.offset[p] < Len(stateLog[p])
  /\ LET e == stateLog[p][consumerD.offset[p] + 1]
         offset2 == [consumerD.offset EXCEPT ![p] = @ + 1]
         atEnd == \A q \in PaymentIdsD : offset2[q] = Len(stateLog[q])
     IN
     IF ~ShouldPost(e.state)
     THEN /\ consumerD' = [consumerD EXCEPT
                 !.offset = offset2,
                 !.passes = IF atEnd THEN @ + 1 ELSE @,
                 !.firstPass = IF atEnd /\ consumerD.passes = 0 THEN accounts ELSE @]
          /\ UNCHANGED <<accounts, ledger_entries, postings>>
     ELSE \E ensureOk \in CallResults, failAt \in PostingFailures :
            LET accts0 == IF ensureOk
                          THEN EnsureMerchantAccount(accounts, MerchantAccountOf(p))
                          ELSE accounts
                tx == PostingTx(accts0, ledger_entries, p, e.state, failAt)
                committed == ~tx.err
                db == EndTx(tx, accts0, ledger_entries)
            IN
            /\ accounts' = db.accounts
            /\ ledger_entries' = db.entries
            /\ postings' = IF committed THEN [postings EXCEPT ![p] = @ + 1] ELSE postings
            /\ consumerD' = [consumerD EXCEPT
                 !.offset = offset2,
                 !.failed = @ \/ ~committed,
                 !.passes = IF atEnd THEN @ + 1 ELSE @,
                 !.firstPass = IF atEnd /\ consumerD.passes = 0 THEN accounts' ELSE @]
  /\ UNCHANGED stateLog
  /\ UNCHANGED frameD

\* At-least-once delivery: after a restart or a rebalance the consumer group
\* reads a key's records again from an earlier offset.
Redeliver(p) ==
  /\ consumerD.redelivered < MaxRedeliver
  /\ \E to \in 0..(consumerD.offset[p] - 1) :
       consumerD' = [consumerD EXCEPT !.offset[p] = to, !.redelivered = @ + 1,
                                      !.partial = TRUE]
  /\ UNCHANGED <<stateLog, accounts, ledger_entries, postings>>
  /\ UNCHANGED frameD

\* Restart of the consumer group from the beginning of the topic.
RedeliverAll ==
  /\ consumerD.redelivered < MaxRedeliver
  /\ \E p \in PaymentIdsD : consumerD.offset[p] > 0
  /\ consumerD' = [consumerD EXCEPT !.offset = [p \in PaymentIdsD |-> 0],
                                    !.redelivered = @ + 1]
  /\ UNCHANGED <<stateLog, accounts, ledger_entries, postings>>
  /\ UNCHANGED frameD

\* The records the orchestrator writes for one payment: the approved path
\* and the failed path of processPayment.
PathEvents(p, path) ==
  IF path = "approved"
  THEN << [payment_id |-> p, state |-> StateAuthPending, previous_state |-> StateNew],
          [payment_id |-> p, state |-> StateAuthorized, previous_state |-> StateAuthPending],
          [payment_id |-> p, state |-> StateCaptured, previous_state |-> StateAuthorized],
          [payment_id |-> p, state |-> StateSucceeded, previous_state |-> StateCaptured] >>
  ELSE << [payment_id |-> p, state |-> StateAuthPending, previous_state |-> StateNew],
          [payment_id |-> p, state |-> StateFailed, previous_state |-> StateAuthPending] >>


\* ================================== the topic payment.state.changed ====
\* The topic as the broker holds it: partitions, each an ordered sequence
\* of records.  The orchestrator's writer sends every record to the
\* partition its balancer picks; the ledger's reader, alone in its group,
\* reads all the partitions, each in offset order.
Partitions == 1..NumPartitions

\* length in bytes of a state name
NameBytes(st) ==
  CASE st = StateNew -> 3
    [] st = StateAuthPending -> 12
    [] st = StateAuthorized -> 10
    [] st = StateCaptured -> 8
    [] st = StateSucceeded -> 9
    [] st = StateFailed -> 6

\* len(msg.Key) + len(msg.Value): the key is the payment id (a uuid, 36
\* bytes); the value is the JSON object with payment_id, previous_state,
\* state and timestamp (129 bytes besides the two state names).
MessageBytes(e) == 165 + NameBytes(e.state) + NameBytes(e.previous_state)

\* Balancer of the writer, kafka.LeastBytes: the partition that has been sent
\* the fewest bytes, the first of them if there are several.  The key of
\* the message is not looked at.
LeastBytesBalance(key, counters) ==
  CHOOSE k \in Partitions :
    /\ \A j \in Partitions : counters[k] <= counters[j]
    /\ \A j \in Partitions : counters[j] = counters[k] => k <= j

\* the edges processPayment takes, in its order
NextStates(from) ==
  CASE from = StateNew -> {StateAuthPending}
    [] from = StateAuthPending -> {StateAuthorized, StateFailed}
    [] from = StateAuthorized -> {StateCaptured}
    [] from = StateCaptured -> {StateSucceeded}
    [] OTHER -> {}

LastState(p) == stateHist[p][Len(stateHist[p])]

\* transitionState: the UPDATE has matched, and the record is written with
\* Key = paymentID through the writer, which returns when the broker has it.
WriteStateChange(p) ==
  /\ \E to \in NextStates(LastState(p)) :
       LET e == [payment_id |-> p, state |-> to, previous_state |-> LastState(p)]
           k == LeastBytesBalance(p, leastBytes)
       IN
       /\ stateHist' = [stateHist EXCEPT ![p] = Append(@, to)]
       /\ partitions' = [partitions EXCEPT ![k] = Append(@, e)]
       /\ leastBytes' = [leastBytes EXCEPT ![k] = @ + MessageBytes(e)]
  /\ UNCHANGED readerD
  /\ UNCHANGED frameLog

\* consumePaymentStateChanges: reader.ReadMessage returns the next record of
\* one of the partitions.
ReadPartition(k) ==
  /\ readerD.offset[k] < Len(partitions[k])
  /\ LET e == partitions[k][readerD.offset[k] + 1] IN
     readerD' = [offset |-> [readerD.offset EXCEPT ![k] = @ + 1],
                 read |-> [readerD.read EXCEPT ![e.payment_id] = Append(@, e.state)]]
  /\ UNCHANGED <<stateHist, partitions, leastBytes>>
  /\ UNCHANGED frameLog


\* ==================================================== C: fraud-service ====
Customers == {"c1", "c2"}
\* how many requests of customer c an hour holds
BurstOf(c) == IF c = "c1" THEN MaxBurst ELSE MaxOther
\* amounts of the requests: the thresholds of the rules and their successors
FraudAmounts == {1000, 1001, 5000, 5001, 10000, 10001}

MaxAmount == 10000
MaxPerHour == 5
ReviewAmount == 5000

\* Rule 1: req.Amount > 10000
HighAmountInclusive(amount) == amount >= MaxAmount
HighAmount(amount) == amount > MaxAmount

\* Rule 2, on the value INCR returned: count > 5
VelocityExceededLoose(count) == count > MaxPerHour + 1
VelocityExceeded(count) == count > MaxPerHour

\* Rule 3: req.Amount > 5000
NeedsReview(amount) == amount > ReviewAmount

\* redis keys "fraud:velocity:" + customer; velocity[c] is the row of the key,
\* value 0 standing for a key that does not exist
NoCounter == [value |-> 0, ttl |-> FALSE]
Incr(kv, c) == [kv EXCEPT ![c].value = @ + 1]
Expire(kv, c) == [kv EXCEPT ![c].ttl = TRUE]

\* what checkFraud returns once rule 1 has not triggered; incrOk is err == nil
\* of the INCR and count its result
AfterVelocityFailClosed(amount, incrOk, count) ==
  IF ~incrOk \/ VelocityExceeded(count) THEN "deny"
  ELSE IF NeedsReview(amount) THEN "manual_review"
  ELSE "approve"
AfterVelocity(amount, incrOk, count) ==
  IF incrOk /\ VelocityExceeded(count) THEN "deny"
  ELSE IF NeedsReview(amount) THEN "manual_review"
  ELSE "approve"

\* calculateRiskScore
calculateRiskScoreInclusive(amount) ==
  (IF amount >= 1000 THEN 30 ELSE 0) + (IF amount > 5000 THEN 50 ELSE 0)
calculateRiskScore(amount) ==
  (IF amount > 1000 THEN 30 ELSE 0) + (IF amount > 5000 THEN 50 ELSE 0)

\* The handler: pc "idle" and the request it handled last, or the request in
\* progress.  nth, eligible and kvFailed are history: the request's rank
\* among its customer's requests of the hour, its rank among those of at
\* most 10000, and whether an INCR of the customer failed in the hour.
IdleFraud == [pc |-> "idle", customer |-> "", amount |-> 0, decision |-> "",
              incrOk |-> FALSE, before |-> 0, count |-> 0, replied |-> FALSE,
              nth |-> 0, eligible |-> 0, kvFailed |-> FALSE]
NoBurst == [seen |-> 0, eligible |-> 0, kvFailed |-> FALSE]

\* the subscription delivers a request to handleFraudCheckRequest
FraudReceive(c, amount) ==
  /\ fraud.pc = "idle"
  /\ burst[c].seen < BurstOf(c)
  /\ velocity[c].value < BurstOf(c)
  /\ LET n == burst[c].seen + 1
         e == burst[c].eligible + (IF amount <= MaxAmount THEN 1 ELSE 0)
     IN /\ burst' = [burst EXCEPT ![c].seen = n, ![c].eligible = e]
        /\ fraud' = [IdleFraud EXCEPT !.pc = "check", !.customer = c, !.amount = amount,
                                      !.before = velocity[c].value,
                                      !.nth = n, !.eligible = e,
                                      !.kvFailed = burst[c].kvFailed]
  /\ fraud_decisions' = {}
  /\ UNCHANGED velocity
  /\ UNCHANGED frameC

\* checkFraud up to and including the INCR
FraudCheckIncr ==
  /\ fraud.pc = "check"
  /\ LET c == fraud.customer IN
     IF HighAmount(fraud.amount)
     THEN /\ fraud' = [fraud EXCEPT !.pc = "save", !.decision = "deny"]
          /\ UNCHANGED <<velocity, burst>>
     ELSE \E incrOk \in CallResults :
            IF incrOk
            THEN LET kv == Incr(velocity, c)
                     count == kv[c].value
                 IN /\ velocity' = kv
                    /\ fraud' = [fraud EXCEPT
                         !.incrOk = TRUE, !.count = count,
                         !.pc = IF count = 1 THEN "expire" ELSE "save",
                         !.decision = IF count = 1 THEN ""
                                      ELSE AfterVelocity(fraud.amount, TRUE, count)]
                    /\ UNCHANGED burst
            ELSE /\ fraud' = [fraud EXCEPT !.pc = "save", !.kvFailed = TRUE,
                                !.decision = AfterVelocity(fraud.amount, FALSE, 0)]
                 /\ burst' = [burst EXCEPT ![c].kvFailed = TRUE]
                 /\ UNCHANGED velocity
  /\ UNCHANGED fraud_decisions
  /\ UNCHANGED frameC

\* checkFraud, count == 1: EXPIRE (its result is not looked at), then the
\* rest of the rules
FraudCheckExpire ==
  /\ fraud.pc = "expire"
  /\ \E expireOk \in CallResults :
       velocity' = IF expireOk THEN Expire(velocity, fraud.customer) ELSE velocity
  /\ fraud' = [fraud EXCEPT !.pc = "save",
                            !.decision = AfterVelocity(fraud.amount, TRUE, fraud.count)]
  /\ UNCHANGED <<fraud_decisions, burst>>
  /\ UNCHANGED frameC

\* handleFraudCheckRequest, after the INSERT: if err != nil the error is
\* logged; the handler goes on to msg.Respond either way
AfterSaveReturn(dbOk) == IF dbOk THEN "respond" ELSE "idle"
AfterSave(dbOk) == "respond"

\* handleFraudCheckRequest: INSERT INTO fraud_decisions, the error only logged
FraudSave ==
  /\ fraud.pc = "save"
  /\ \E dbOk \in CallResults :
       /\ fraud_decisions' =
            IF dbOk
            THEN fraud_decisions \cup
                   {[customer_id |-> fraud.customer, amount |-> fraud.amount,
                     decision |-> fraud.decision,
                     risk_score |-> calculateRiskScore(fraud.amount)]}
            ELSE fraud_decisions
       /\ fraud' = [fraud EXCEPT !.pc = AfterSave(dbOk)]
  /\ UNCHANGED <<velocity, burst>>
  /\ UNCHANGED frameC

\* handleFraudCheckRequest: msg.Respond with the decision
FraudRespond ==
  /\ fraud.pc = "respond"
  /\ fraud' = [fraud EXCEPT !.pc = "idle", !.replied = TRUE]
  /\ UNCHANGED <<velocity, fraud_decisions, burst>>
  /\ UNCHANGED frameC

\* An hour goes by without a request of customer c: a counter that carries a
\* TTL is gone, one without stays.
HourPasses(c) ==
  /\ fraud.pc = "idle"
  /\ burst[c].seen > 0
  /\ velocity' = IF velocity[c].ttl THEN [velocity EXCEPT ![c] = NoCounter] ELSE velocity
  /\ burst' = [burst EXCEPT ![c] = NoBurst]
  /\ UNCHANGED <<fraud, fraud_decisions>>
  /\ UNCHANGED frameC

\* The state of each component after its main() has run initDB.
\* Each service is a process of its own, and a specification runs the
\* services its claims are about.  The variables of a service that is not
\* started hold NotStarted throughout.
NotStarted == "not started"

StoppedA ==
  /\ payments = NotStarted
  /\ idemCache = NotStarted
  /\ req = NotStarted
  /\ returned = NotStarted
  /\ nextId = NotStarted

StoppedB ==
  /\ payment_states = NotStarted
  /\ locks = NotStarted
  /\ worker = NotStarted
  /\ stateHist = NotStarted

StoppedC ==
  /\ velocity = NotStarted
  /\ fraud = NotStarted
  /\ fraud_decisions = NotStarted
  /\ burst = NotStarted

StoppedD ==
  /\ accounts = NotStarted
  /\ ledger_entries = NotStarted
  /\ consumerD = NotStarted
  /\ postings = NotStarted

StoppedLog ==
  /\ partitions = NotStarted
  /\ leastBytes = NotStarted
  /\ readerD = NotStarted

StartA ==
  /\ payments = {}
  /\ idemCache = {}
  /\ req = [r \in Reqs |-> IdleReq]
  /\ returned = {}
  /\ nextId = 1

StartB ==
  /\ payment_states = <<>>
  /\ locks = {}
  /\ worker = [w \in Workers |-> IdleWorker]
  /\ stateHist = [p \in PaymentIdsB |-> <<>>]

StartD ==
  /\ accounts = {[id |-> PlatformAccount, type |-> "platform", balance |-> 0]}
  /\ ledger_entries = {}
  /\ consumerD = [offset |-> [p \in PaymentIdsD |-> 0], redelivered |-> 0,
                  failed |-> FALSE, partial |-> FALSE, passes |-> 0,
                  firstPass |-> {}]
  /\ postings = [p \in PaymentIdsD |-> 0]

StartLog ==
  /\ partitions = [k \in Partitions |-> <<>>]
  /\ leastBytes = [k \in Partitions |-> 0]
  /\ readerD = [offset |-> [k \in Partitions |-> 0],
                read |-> [p \in PaymentIdsD |-> <<>>]]

StartC ==
  /\ velocity = [c \in Customers |-> NoCounter]
  /\ fraud = IdleFraud
  /\ fraud_decisions = {}
  /\ burst = [c \in Customers |-> NoBurst]

InitA ==
  /\ faults = TRUE
  /\ StartA /\ StoppedB /\ StoppedC /\ StoppedD /\ StoppedLog
  /\ createdLog = <<>>
  /\ stateLog = <<>>

NextA ==
  \/ \E r \in Reqs : ReceiveRequest(r)
  \/ \E r \in Reqs : MiddlewareCache(r)
  \/ \E r \in Reqs : MiddlewareStore(r)
  \/ \E r \in Reqs : CreatePaymentInsert(r)
  \/ \E r \in Reqs : CreatePaymentCache(r)
  \/ \E r \in Reqs : CreatePaymentPublish(r)
  \/ \E k \in {IdemKey(key) : key \in Keys} : ExpireIdemKey(k)

SpecA == InitA /\ [][NextA]_vars

\* The HTTP server keeps serving: a request in progress is taken to its
\* response.
StepA(r) ==
  \/ MiddlewareCache(r) \/ MiddlewareStore(r) \/ CreatePaymentInsert(r)
  \/ CreatePaymentCache(r) \/ CreatePaymentPublish(r)

SpecALive == SpecA /\ \A r \in Reqs : WF_vars(StepA(r))

\* The gateway with clients that also call POST /payments/:id/confirm.
NextAConfirm ==
  \/ NextA
  \/ \E id \in 1..MaxId : ConfirmPayment(id)

SpecAConfirm == InitA /\ [][NextAConfirm]_vars

\* The gateway has accepted NumPaymentsB payments and published their events.
LogOfGateway ==
  [i \in PaymentIdsB |-> [key |-> i, payment_id |-> i, amount |-> 50, status |-> "NEW"]]

InitB ==
  /\ faults = TRUE
  /\ StoppedA /\ StartB /\ StoppedC /\ StoppedD /\ StoppedLog
  /\ createdLog = LogOfGateway
  /\ stateLog = [p \in PaymentIdsB |-> <<>>]

NextB ==
  \/ \E w \in Workers : ProcessAcquire(w)
  \/ \E w \in Workers : ProcessInsert(w)
  \/ \E w \in Workers : ProcessToPending(w)
  \/ \E w \in Workers : ProcessFraud(w)
  \/ \E w \in Workers : ProcessTimeoutFail(w)
  \/ \E w \in Workers : ProcessSaveDecision(w)
  \/ \E w \in Workers : ProcessAuthorize(w)
  \/ \E w \in Workers : ProcessCapture(w)
  \/ \E w \in Workers : ProcessSucceed(w)
  \/ \E w \in Workers : ProcessFail(w)
  \/ \E w \in Workers : ProcessRelease(w)
  \/ \E p \in PaymentIdsB : LockExpire(p)
  \/ \E w \in Workers : WorkerCrash(w)

SpecB == InitB /\ [][NextB]_vars

\* Every instance keeps running: a processPayment call in progress is taken
\* to its return, and the consumer loop keeps reading records.
StepB(w) ==
  \/ ProcessAcquire(w) \/ ProcessInsert(w) \/ ProcessToPending(w)
  \/ ProcessFraud(w) \/ ProcessTimeoutFail(w) \/ ProcessSaveDecision(w)
  \/ ProcessAuthorize(w) \/ ProcessCapture(w) \/ ProcessSucceed(w)
  \/ ProcessFail(w) \/ ProcessRelease(w)

SpecBLive == SpecB /\ \A w \in Workers : WF_vars(StepB(w))

\* The orchestrator where no call fails and no instance dies: what is left is
\* the delivery (any record, any number of times, to any instance), the
\* expiry of locks and the outcome of the fraud check.
InitBNoFault ==
  /\ faults = FALSE
  /\ StoppedA /\ StartB /\ StoppedC /\ StoppedD /\ StoppedLog
  /\ createdLog = LogOfGateway
  /\ stateLog = [p \in PaymentIdsB |-> <<>>]

NextBNoFault ==
  \/ \E w \in Workers : ProcessAcquire(w)
  \/ \E w \in Workers : ProcessInsert(w)
  \/ \E w \in Workers : ProcessToPending(w)
  \/ \E w \in Workers : ProcessFraud(w)
  \/ \E w \in Workers : ProcessTimeoutFail(w)
  \/ \E w \in Workers : ProcessSaveDecision(w)
  \/ \E w \in Workers : ProcessAuthorize(w)
  \/ \E w \in Workers : ProcessCapture(w)
  \/ \E w \in Workers : ProcessSucceed(w)
  \/ \E w \in Workers : ProcessFail(w)
  \/ \E w \in Workers : ProcessRelease(w)
  \/ \E p \in PaymentIdsB : LockExpire(p)

SpecBNoFault == InitBNoFault /\ [][NextBNoFault]_vars

\* The same, with every instance running on.
SpecBNoFaultLive == SpecBNoFault /\ \A w \in Workers : WF_vars(StepB(w))

\* The orchestrator has driven NumPaymentsD payments to the end of their
\* paths and written the records.
\* The payments of those records as the gateway accepted them: the amount is
\* the one of the request; payment.state.changed records carry no amount.
AcceptedPayments ==
  [i \in PaymentIdsD |-> [key |-> i, payment_id |-> i, amount |-> 50, status |-> "NEW"]]

InitD ==
  /\ faults = TRUE
  /\ StoppedA /\ StoppedB /\ StoppedC /\ StartD /\ StoppedLog
  /\ createdLog = AcceptedPayments
  /\ \E path \in [PaymentIdsD -> {"approved", "failed"}] :
       stateLog = [p \in PaymentIdsD |-> PathEvents(p, path[p])]

NextD ==
  \/ \E p \in PaymentIdsD : ConsumeStateChange(p)
  \/ \E p \in PaymentIdsD : Redeliver(p)
  \/ RedeliverAll

SpecD == InitD /\ [][NextD]_vars

\* The orchestrator takes NumPaymentsD payments, whose rows are in NEW, along
\* their paths while the ledger reads the topic.
InitLog ==
  /\ faults = FALSE
  /\ StoppedA /\ StoppedC /\ StoppedD /\ StartLog
  /\ payment_states = <<>>
  /\ locks = {}
  /\ worker = [w \in Workers |-> IdleWorker]
  /\ stateHist = [p \in PaymentIdsD |-> <<StateNew>>]
  /\ createdLog = AcceptedPayments
  /\ stateLog = <<>>

NextLog ==
  \/ \E p \in PaymentIdsD : WriteStateChange(p)
  \/ \E k \in Partitions : ReadPartition(k)

SpecLog == InitLog /\ [][NextLog]_vars

\* recordEntry on the accounts of the schema, all of them open and empty.
InitEntry ==
  /\ faults = FALSE
  /\ StoppedA /\ StoppedB /\ StoppedC /\ StoppedLog
  /\ accounts = {[id |-> a, type |-> a[1], balance |-> 0] : a \in EntryAccounts}
  /\ ledger_entries = {}
  /\ consumerD = [offset |-> [p \in PaymentIdsD |-> 0], redelivered |-> 0,
                  failed |-> FALSE, partial |-> FALSE, passes |-> 0,
                  firstPass |-> {}]
  /\ postings = [p \in PaymentIdsD |-> 0]
  /\ createdLog = <<>>
  /\ stateLog = <<>>

NextEntry ==
  \E a \in EntryAccounts, p \in PaymentIdsD, t \in EntryTypes, amount \in EntryAmounts :
    ApplyEntry(a, p, t, amount)

SpecEntry == InitEntry /\ [][NextEntry]_vars

InitC ==
  /\ faults = TRUE
  /\ StoppedA /\ StoppedB /\ StartC /\ StoppedD /\ StoppedLog
  /\ createdLog = <<>>
  /\ stateLog = <<>>

NextC ==
  \/ \E c \in Customers, amount \in FraudAmounts : FraudReceive(c, amount)
  \/ FraudCheckIncr
  \/ FraudCheckExpire
  \/ FraudSave
  \/ FraudRespond
  \/ \E c \in Customers : HourPasses(c)

SpecC == InitC /\ [][NextC]_vars

\* The subscriber keeps running: a request it has taken is handled to the
\* end of handleFraudCheckRequest.
StepC == FraudCheckIncr \/ FraudCheckExpire \/ FraudSave \/ FraudRespond

\* The fraud service with the requests of the customers that stay below the
\* velocity limit, the subscriber running on.
NextCLive ==
  \/ \E c \in Customers \ {"c1"}, amount \in FraudAmounts : FraudReceive(c, amount)
  \/ FraudCheckIncr
  \/ FraudCheckExpire
  \/ FraudSave
  \/ FraudRespond
  \/ \E c \in Customers \ {"c1"} : HourPasses(c)

SpecCLive == InitC /\ [][NextCLive]_vars /\ WF_vars(StepC)

\* ================================================================ claims ====

\* C1: every successful CreatePayment response for an idempotency key carries
\* the same payment id (created, replayed from the cache or from the Store),
\* and the Store holds exactly one payments row for that key, with that id.
C1_SameIdOneRow ==
  \A x \in returned :
    /\ \A y \in returned : y.key = x.key => y.id = x.id
    /\ Cardinality({p \in payments : p.idempotency_key = x.key}) = 1
    /\ \A p \in payments : p.idempotency_key = x.key => p.id = x.id

\* a key created once, then replayed from the cache and, the cache entry
\* gone, from the Store
C1_Witness ==
  \E k \in Keys : \A via \in {"created", "cache", "store"} :
    \E x \in returned : x.key = k /\ x.via = via

\* C2: in every reachable state the Store holds at most one payment per
\* idempotency_key, also when two requests with the same key both pass the
\* cache and Store look-ups before either inserts.
C2_UniqueKey ==
  \A p, q \in payments : p.idempotency_key = q.idempotency_key => p = q

\* two requests with one key both missed in the Store; one has inserted, the
\* other is about to
C2_Witness ==
  \E r1, r2 \in Reqs :
    /\ r1 # r2
    /\ req[r1].key = req[r2].key
    /\ req[r1].miss /\ req[r2].miss
    /\ req[r1].pc = "handler"
    /\ req[r2].pc \in {"cache", "publish"}

IsPrefix(s, t) == Len(s) <= Len(t) /\ \A i \in 1..Len(s) : s[i] = t[i]
ApprovedPath ==
  <<StateNew, StateAuthPending, StateAuthorized, StateCaptured, StateSucceeded>>
FailedPath == <<StateNew, StateAuthPending, StateFailed>>
StateRowsOf(p) == {i \in DOMAIN payment_states : payment_states[i].payment_id = p}

\* C3: for every payment the values its state column has taken, in order, are
\* a prefix of NEW, AUTH_PENDING, AUTHORIZED, CAPTURED, SUCCEEDED or of NEW,
\* AUTH_PENDING, FAILED, and the column holds the last of them.
C3_LegalPath ==
  \A p \in PaymentIdsB :
    /\ IsPrefix(stateHist[p], ApprovedPath) \/ IsPrefix(stateHist[p], FailedPath)
    /\ \A i \in StateRowsOf(p) :
         /\ stateHist[p] # <<>>
         /\ payment_states[i].state = stateHist[p][Len(stateHist[p])]
    /\ StateRowsOf(p) = {} => stateHist[p] = <<>>

\* a payment went the whole approved path and a duplicate delivery is at
\* its NEW -> AUTH_PENDING step
C3_Witness ==
  \E p \in PaymentIdsB, w \in Workers :
    /\ stateHist[p] = ApprovedPath
    /\ worker[w].pid = p
    /\ worker[w].pc = "toPending"

\* C4: a payment whose state is SUCCEEDED has fraud_decision approve in its
\* row, also when the write of the fraud decision fails.
C4_SucceededHasApprove ==
  \A i \in DOMAIN payment_states :
    payment_states[i].state = StateSucceeded =>
      payment_states[i].fraud_decision = "approve"

TerminalStates == {StateSucceeded, StateFailed, StateCanceled}

\* C5: once a row of payment_states is SUCCEEDED, FAILED or CANCELED, no step
\* changes any of its columns.
C5_TerminalFrozen ==
  [][\A i \in DOMAIN payment_states :
       payment_states[i].state \in TerminalStates =>
         /\ i \in DOMAIN payment_states'
         /\ payment_states'[i] = payment_states[i]]_vars

\* a FAILED row, and a later delivery of its payment.created that has run
\* its INSERT and is at its NEW -> AUTH_PENDING step
C5_Witness ==
  \E i \in DOMAIN payment_states, w \in Workers :
    /\ payment_states[i].state = StateFailed
    /\ worker[w].pid = payment_states[i].payment_id
    /\ worker[w].pc = "toPending"

RECURSIVE SumAmount(_)
SumAmount(entries) ==
  IF entries = {} THEN 0
  ELSE LET e == CHOOSE x \in entries : TRUE IN e.amount + SumAmount(entries \ {e})

EntriesOfAccount(a, type) ==
  {e \in ledger_entries : e.account_id = a /\ e.type = type}
EntriesOfPayment(p, type) ==
  {e \in ledger_entries : e.payment_id = p /\ e.type = type}

\* C6: every account's balance is the sum of its credit entries minus the sum
\* of its debit entries.
C6_BalanceIsEntrySum ==
  \A a \in accounts :
    a.balance = SumAmount(EntriesOfAccount(a.id, "credit"))
                - SumAmount(EntriesOfAccount(a.id, "debit"))

ConsumerAtEnd == \A p \in PaymentIdsD : consumerD.offset[p] = Len(stateLog[p])

\* C7: when the whole log has been delivered twice (and no posting failed),
\* every account has the balance it had when the log had been delivered once.
C7_ReplaySameBalances ==
  (ConsumerAtEnd /\ consumerD.passes = 2 /\ ~consumerD.failed /\ ~consumerD.partial)
    => accounts = consumerD.firstPass

\* C8: however often the SUCCEEDED record of a payment is delivered, the
\* payment has one row with key {payment_id}-SUCCEEDED-merchant, one with key
\* {payment_id}-SUCCEEDED-platform and no other row; a payment never posted has
\* none; no idempotency_key is on two rows.
C8_OneEntrySet ==
  /\ \A e1, e2 \in ledger_entries :
       e1.idempotency_key = e2.idempotency_key => e1 = e2
  /\ \A p \in PaymentIdsD :
       LET rows == {e \in ledger_entries : e.payment_id = p} IN
       IF postings[p] > 0
       THEN /\ Cardinality(rows) = 2
            /\ \E e \in rows : e.idempotency_key = <<p, StateSucceeded, "merchant">>
            /\ \E e \in rows : e.idempotency_key = <<p, StateSucceeded, "platform">>
       ELSE rows = {}

\* the posting transaction of one payment has committed at least twice
C8_Witness == \E p \in PaymentIdsD : postings[p] >= 2

\* C9: for every payment with ledger entries, its credits and its debits sum
\* to the same amount.
C9_Balanced ==
  \A p \in PaymentIdsD :
    EntriesOfPayment(p, "credit") \cup EntriesOfPayment(p, "debit") # {} =>
      SumAmount(EntriesOfPayment(p, "credit")) = SumAmount(EntriesOfPayment(p, "debit"))

\* C10: however often, and to however many instances at once, the
\* payment.created record of a payment is delivered, the payment has at most
\* one payment_states row, at most one successful NEW -> AUTH_PENDING
\* transition and at most one AUTH_PENDING record on the log; and once a
\* delivery has run the NEW -> AUTH_PENDING step, exactly one of each.
C10_ExactlyOnce ==
  \A p \in PaymentIdsB :
    LET rows == Cardinality(StateRowsOf(p))
        transitions ==
          Cardinality({i \in DOMAIN stateHist[p] : stateHist[p][i] = StateAuthPending})
        records ==
          Cardinality({i \in DOMAIN stateLog[p] : stateLog[p][i].state = StateAuthPending})
    IN
    /\ rows <= 1 /\ transitions <= 1 /\ records <= 1
    /\ Len(stateHist[p]) >= 2 => rows = 1 /\ transitions = 1 /\ records = 1
    /\ (\E w \in Workers : worker[w].pid = p
                           /\ worker[w].pc \notin {"idle", "insert", "toPending"})
         => rows = 1 /\ transitions = 1 /\ records = 1

\* the first delivery waits for the fraud reply, its lock has expired, and a
\* second delivery of the same record has run its NEW -> AUTH_PENDING step
C10_Witness ==
  \E p \in PaymentIdsB, w1, w2 \in Workers :
    /\ w1 # w2
    /\ worker[w1].pid = p /\ worker[w1].pc = "fraud"
    /\ worker[w2].pid = p /\ worker[w2].pc = "release"

\* the reply the handler has sent for the request it handled last
Replied == fraud.pc = "idle" /\ fraud.replied

\* C11: a fraud.check request is denied when its amount is above 10000, and
\* when it is the 6th or a later request of at most 10000 of its customer
\* within the hour and every increment of the customer's counter in that hour
\* succeeded.
C11_SixthCountedDenied ==
  Replied =>
    /\ HighAmount(fraud.amount) => fraud.decision = "deny"
    /\ (fraud.eligible > MaxPerHour /\ ~fraud.kvFailed) => fraud.decision = "deny"

\* the 6th request of at most 10000 of a customer within the hour is answered
C11_Witness ==
  /\ Replied
  /\ fraud.eligible = MaxPerHour + 1
  /\ ~HighAmount(fraud.amount)
  /\ ~fraud.kvFailed
  /\ fraud.decision = "deny"

\* C11 as stated: the 6th and every later request of a customer within one
\* hour, of any amounts, is denied.
C11_SixthDenied ==
  (Replied /\ fraud.nth > MaxPerHour) => fraud.decision = "deny"

\* The rule list of the fraud evaluator, in its order; count is the value of
\* the customer's counter after the increment (0 when there is none).
RuleList(amount, count) ==
  << [triggers |-> amount > 10000, decision |-> "deny"],
     [triggers |-> count > 5,      decision |-> "deny"],
     [triggers |-> amount > 5000,  decision |-> "manual_review"],
     [triggers |-> TRUE,           decision |-> "approve"] >>

FirstTriggered(rules) ==
  rules[CHOOSE i \in DOMAIN rules :
          rules[i].triggers /\ \A j \in 1..(i - 1) : ~rules[j].triggers].decision

Decided == fraud.pc \in {"save", "respond"}

StateRowOf(p) == payment_states[CHOOSE i \in StateRowsOf(p) : TRUE]

\* the fraud reply of payment p has been acted upon and no instance is still
\* working through the transitions that follow it
ReplyHandled(p) ==
  /\ StateRowsOf(p) # {}
  /\ StateRowOf(p).fraud_decision # Null
  /\ \A w \in Workers :
       worker[w].pid = p => worker[w].pc \notin {"authorize", "capture", "succeed", "fail"}

\* C13: once the fraud reply of a payment in AUTH_PENDING has been acted upon,
\* the payment is SUCCEEDED, reached through AUTHORIZED and CAPTURED, if the
\* reply was approve, and FAILED, reached directly, if it was deny or
\* manual_review; so it is SUCCEEDED if and only if the reply was approve.
C13_ApproveIffSucceeded ==
  \A p \in PaymentIdsB :
    ReplyHandled(p) =>
      LET row == StateRowOf(p) IN
      /\ row.fraud_decision = "approve" =>
           /\ row.state = StateSucceeded
           /\ stateHist[p] = ApprovedPath
      /\ row.fraud_decision \in {"deny", "manual_review"} =>
           /\ row.state = StateFailed
           /\ stateHist[p] = FailedPath
      /\ row.state = StateSucceeded <=> row.fraud_decision = "approve"

\* a payment whose reply was manual_review has been failed
C13_Witness ==
  \E p \in PaymentIdsB :
    /\ ReplyHandled(p)
    /\ StateRowOf(p).fraud_decision = "manual_review"
    /\ StateRowOf(p).state = StateFailed

\* C14: the step of processPayment that handles a fraud.check request that
\* timed out or failed on the bus leaves the payment FAILED, reached from
\* AUTH_PENDING, with "timeout" in its fraud decision column.
C14_TimeoutRecorded ==
  [][\A w \in Workers :
       (worker[w].pc = "timeoutFail" /\ worker'[w].pc = "release") =>
         \E row \in {r \in DOMAIN payment_states' :
                       payment_states'[r].payment_id = worker[w].pid} :
           /\ payment_states'[row].state = StateFailed
           /\ payment_states'[row].previous_state = StateAuthPending
           /\ payment_states'[row].fraud_decision = "timeout"]_vars

\* the states a transition can lead to
TransitionTargets ==
  {StateAuthPending, StateAuthorized, StateCaptured, StateSucceeded, StateFailed}

Committed(p, to) == \E i \in DOMAIN stateHist[p] : stateHist[p][i] = to
Emitted(p, to) ==
  \E i \in DOMAIN stateLog[p] :
    /\ stateLog[p][i].payment_id = p
    /\ stateLog[p][i].state = to
    /\ \E j \in DOMAIN stateHist[p] :
         /\ j > 1 /\ stateHist[p][j] = to
         /\ stateLog[p][i].previous_state = stateHist[p][j - 1]

\* C15: every transition of a payment's state that committed is eventually
\* followed by a payment.state.changed record under the payment's key with
\* the transition's state and previous_state.
C15_EventuallyEmitted ==
  \A p \in PaymentIdsB : \A to \in TransitionTargets :
    Committed(p, to) ~> Emitted(p, to)

\* C16: every row inserted into payments is eventually followed by a
\* payment.created record for its payment id.
C16_EventuallyPublished ==
  \A id \in 1..MaxId :
    (\E p \in payments : p.id = id)
      ~> (\E i \in DOMAIN createdLog : createdLog[i].payment_id = id)

\* C17: the step of createPayment whose publish fails (nothing is appended to
\* payment.created) sends no success response, while the payment's row
\* exists.
C17_PublishFailureIs5xx ==
  [][\A r \in Reqs :
       (req[r].pc = "publish" /\ req'[r].pc = "idle" /\ createdLog' = createdLog) =>
         /\ \E p \in payments' : p.id = req[r].id
         /\ \A resp \in returned' \ returned : resp.id # req[r].id]_vars

\* C18: the step in which a CreatePayment request is answered 400 (no
\* Idempotency-Key header, or a body that does not bind) changes neither the
\* payments table nor the idempotency cache nor the payment.created topic.
C18_RejectedChangesNothing ==
  [][\A r \in Reqs :
       (req'[r].rejected /\ req'[r] # req[r]) =>
         /\ payments' = payments
         /\ idemCache' = idemCache
         /\ createdLog' = createdLog
         /\ returned' = returned]_vars

\* a request was answered 400 while an intent is stored, cached and published
C18_Witness ==
  /\ \E r \in Reqs : req[r].rejected
  /\ payments # {}
  /\ idemCache # {}
  /\ createdLog # <<>>

\* C19: every replay (a 200 for a key already used, served from the cache or
\* from the Store) carries the body of the creation, that is the intent's id
\* with status NEW and the creation's created_at, and adds no row and no
\* payment.created record: one row and at most one record per key.
C19_ReplayIdentical ==
  /\ \A x \in returned :
       x.via \in {"cache", "store"} =>
         /\ \E p \in payments : p.idempotency_key = x.key /\ p.id = x.id
         /\ x.status = "NEW"
         /\ x.created_at = AppNow
  /\ \A k \in Keys :
       /\ Cardinality({p \in payments : p.idempotency_key = k}) <= 1
       /\ \A p \in payments :
            p.idempotency_key = k =>
              Cardinality({i \in DOMAIN createdLog : createdLog[i].payment_id = p.id}) <= 1

\* the record of payment p that the ledger's consumer reads next
NextRecord(p) == stateLog[p][consumerD.offset[p] + 1]
Consumes(p) == consumerD'.offset[p] = consumerD.offset[p] + 1

\* C20: consuming a payment.state.changed record whose state is not
\* SUCCEEDED changes no account and adds no entry; consuming a SUCCEEDED
\* record adds entries of that payment only; and a payment with no SUCCEEDED
\* record, such as one that ended FAILED, never has ledger entries.
C20_OnlySucceededPosts ==
  /\ [](\A p \in PaymentIdsD :
          (\A i \in DOMAIN stateLog[p] : stateLog[p][i].state # StateSucceeded)
            => {e \in ledger_entries : e.payment_id = p} = {})
  /\ [][\A p \in PaymentIdsD :
          Consumes(p) =>
            IF NextRecord(p).state # StateSucceeded
            THEN accounts' = accounts /\ ledger_entries' = ledger_entries
            ELSE \A e \in ledger_entries' \ ledger_entries : e.payment_id = p]_vars

\* the FAILED record of one payment has been consumed and left no entry,
\* while another payment has been posted
C20_Witness ==
  \E p, q \in PaymentIdsD :
    /\ stateLog[p] # <<>>
    /\ stateLog[p][Len(stateLog[p])].state = StateFailed
    /\ consumerD.offset[p] = Len(stateLog[p])
    /\ {e \in ledger_entries : e.payment_id = p} = {}
    /\ {e \in ledger_entries : e.payment_id = q} # {}

\* the amount of payment p as the gateway accepted it
ActualAmount(p) == createdLog[p].amount

\* C21: for a payment that has been posted, the merchant account is credited
\* the payment's amount minus the platform fee and the platform account the
\* platform fee, so that the two credits add up to the payment's amount.
C21_CreditsSumToAmount ==
  \A p \in PaymentIdsD :
    postings[p] > 0 =>
      /\ \A e \in EntriesOfPayment(p, "credit") :
           e.amount = IF e.account_id = PlatformAccount
                      THEN PlatformFee
                      ELSE ActualAmount(p) - PlatformFee
      /\ SumAmount(EntriesOfPayment(p, "credit")) = ActualAmount(p)

\* C22: a delivery of a SUCCEEDED record whose posting does not commit,
\* whichever statement of the transaction failed, leaves the ledger entries
\* as they were and every account row as it was; the only row that can be
\* new is the merchant account opened before the transaction, with balance
\* zero.
C22_AllOrNothing ==
  [][\A p \in PaymentIdsD :
       (Consumes(p) /\ NextRecord(p).state = StateSucceeded /\ postings' = postings)
         => /\ ledger_entries' = ledger_entries
            /\ accounts \subseteq accounts'
            /\ \A a \in accounts' \ accounts : a.balance = 0]_vars

\* a posting has failed inside its transaction (the merchant account had
\* been opened) and nothing of it is left
C22_Witness ==
  \E p \in PaymentIdsD :
    /\ consumerD.failed
    /\ consumerD.offset[p] = Len(stateLog[p])
    /\ stateLog[p][Len(stateLog[p])].state = StateSucceeded
    /\ postings = [q \in PaymentIdsD |-> 0]
    /\ ledger_entries = {}
    /\ \E a \in accounts : a.id = MerchantAccountOf(p)
    /\ \A a \in accounts : a.balance = 0

\* C23: the ledger's consumer moves its offset past a SUCCEEDED record only
\* when the posting of that record has committed; after a failed posting the
\* offset stays, so that the record is delivered again.
C23_OffsetKeptOnFailure ==
  [][\A p \in PaymentIdsD :
       (Consumes(p) /\ NextRecord(p).state = StateSucceeded)
         => postings'[p] = postings[p] + 1]_vars

\* the state row of payment p exists and is in state st
RowInState(p, st) == StateRowsOf(p) # {} /\ StateRowOf(p).state = st

\* C24: every payment whose state row reaches AUTH_PENDING eventually has
\* its row in a terminal state, SUCCEEDED or FAILED, also when the fraud
\* reply could not be decoded: a row left in AUTH_PENDING is demoted to
\* FAILED.
C24_PendingEventuallyTerminal ==
  \A p \in PaymentIdsB :
    RowInState(p, StateAuthPending)
      ~> (RowInState(p, StateSucceeded) \/ RowInState(p, StateFailed))

\* the place of state st in the history of p's state column
CommitIndex(p, st) == CHOOSE i \in DOMAIN stateHist[p] : stateHist[p][i] = st

\* C25: the ledger reads the records of a payment in the order in which the
\* orchestrator committed the transitions: of two records of one payment,
\* the one read first is the one whose transition committed first.
C25_ReadInCommitOrder ==
  \A p \in PaymentIdsD :
    \A i, j \in DOMAIN readerD.read[p] :
      i < j => CommitIndex(p, readerD.read[p][i]) < CommitIndex(p, readerD.read[p][j])

C27_RiskScore ==
  \A d \in fraud_decisions :
    /\ d.risk_score = (IF d.amount <= 1000 THEN 0
                       ELSE IF d.amount <= 5000 THEN 30 ELSE 80)
    /\ d.risk_score \in 0..100

\* decisions have been stored for an amount just above 1000 with score 30
C27_Witness ==
  \E d \in fraud_decisions : d.amount = 1001 /\ d.risk_score = 30

\* the tasks that are inside processPayment for payment p
TasksOn(p) == {w \in Workers : worker[w].pc # "idle" /\ worker[w].pid = p}

\* C28: at any time at most one task is processing a given payment.
C28_OneTaskPerPayment ==
  \A p \in PaymentIdsB : Cardinality(TasksOn(p)) <= 1

\* C29: a task that finishes deletes payment_lock:p only if the key in redis
\* is the one it set; a task whose key expired leaves the key of the task
\* that acquired the lock after it.
C29_ReleaseOnlyOwnLock ==
  [][\A w \in Workers :
       (worker[w].pc = "release" /\ worker'[w].pc = "idle" /\ ~worker[w].holds)
         => locks' = locks]_vars

\* processPayment returns nil only at its end, after a decoded fraud reply;
\* a task about to return without one returns an error, which
\* consumePaymentEvents logs as "Error processing payment".
ReturnsError(t) == t.pc = "release" /\ t.decision = Null

\* the state that the transitionState call at pc expects
GuardOf(pc) ==
  CASE pc = "toPending" -> StateNew
    [] pc \in {"authorize", "fail"} -> StateAuthPending
    [] pc = "capture" -> StateAuthorized
    [] pc = "succeed" -> StateCaptured

\* task w makes a transitionState call whose UPDATE matches no row
ZeroRowStep(w) ==
  /\ worker[w].pc \in {"toPending", "authorize", "capture", "succeed", "fail"}
  /\ worker'[w].pc # worker[w].pc
  /\ CasMatch(payment_states, worker[w].pid, GuardOf(worker[w].pc)) = {}

\* C30: a transition attempt whose guard does not match the current state
\* leaves the state rows unchanged, writes no payment.state.changed record,
\* and does not make processPayment return an error.
C30_ZeroRowSilent ==
  [][\A w \in Workers :
       ZeroRowStep(w) =>
         /\ payment_states' = payment_states
         /\ stateLog' = stateLog
         /\ ~ReturnsError(worker'[w])]_vars

\* task w sends the fraud.check request of payment p in this step: it comes
\* to the nc.Request call
SendsFraudCheck(w, p) ==
  worker[w].pc # "fraud" /\ worker'[w].pc = "fraud" /\ worker'[w].pid = p

C32_ReplyBeforeWrite ==
  [][(fraud_decisions' \ fraud_decisions # {}) => fraud.replied]_vars

\* C33: every request the handler has taken is answered with the decision of
\* checkFraud, whether the INSERT INTO fraud_decisions succeeded or failed.
C33_ReplyDespiteWriteFailure ==
  (fraud.pc = "check")
    ~> (Replied /\ fraud.decision = FirstTriggered(RuleList(fraud.amount, fraud.count)))

\* a request has been answered although its row could not be written
C33_Witness ==
  /\ Replied
  /\ fraud.decision = "manual_review"
  /\ fraud_decisions = {}

PriorBalance(e) ==
  LET before == {x \in ledger_entries : x.account_id = e.account_id /\ x.id < e.id} IN
  IF before = {} THEN 0
  ELSE (CHOOSE x \in before : \A y \in before : y.id <= x.id).balance

\* C35: the balance field of every ledger entry is the balance field of the
\* previous entry of the same account plus the amount for a credit, minus
\* the amount for a debit, starting from 0.
C35_RunningBalance ==
  \A e \in ledger_entries :
    e.balance = PriorBalance(e) + (IF e.type = "credit" THEN e.amount ELSE 0 - e.amount)

\* request r is answered from the payments table in this step
AnsweredFromStore(r) == req[r].pc = "mwStore" /\ req'[r].pc = "idle"

\* C36: a replay that misses the cache and is answered from the payments
\* table leaves the intent in the cache under its key, so that the next
\* replay of the key is a cache hit.
C36_StoreHitRefreshesCache ==
  [][\A r \in Reqs :
       AnsweredFromStore(r) => RedisGet(idemCache', IdemKey(req[r].key)) # {}]_vars

\* record e of payment p is the record of a transition in p's history
RecordOfCommit(p, e) ==
  /\ e.payment_id = p
  /\ \E j \in DOMAIN stateHist[p] :
       j > 1 /\ stateHist[p][j] = e.state /\ stateHist[p][j - 1] = e.previous_state

\* C37: every payment.state.changed record is the record of a transition
\* that committed on its payment, with the transition's to and from as state
\* and previous_state, and no transition has two records; an update that
\* failed or matched no row has none.
C37_RecordsAreCommits ==
  \A p \in PaymentIdsB :
    /\ \A i \in DOMAIN stateLog[p] : RecordOfCommit(p, stateLog[p][i])
    /\ \A i, j \in DOMAIN stateLog[p] :
         stateLog[p][i].state = stateLog[p][j].state => i = j

\* an approved payment is left in AUTH_PENDING: the update to AUTHORIZED
\* failed and the two after it matched no row; the log holds the one record
\* of NEW -> AUTH_PENDING
C37_Witness ==
  \E p \in PaymentIdsB :
    /\ RowInState(p, StateAuthPending)
    /\ StateRowOf(p).fraud_decision = "approve"
    /\ \A w \in Workers : worker[w].pc = "idle"
    /\ Len(stateLog[p]) = 1

\* C38: every payment.created record is the record of a row of payments,
\* with the row's id as key and as payment_id, the row's amount and status
\* NEW; no payment has two records; and every cached intent is a row of
\* payments under its idempotency key.  An INSERT that failed has neither a
\* record nor a cache entry.
C38_CreatedOnlyAfterInsert ==
  /\ \A i \in DOMAIN createdLog :
       \E row \in payments :
         /\ createdLog[i].payment_id = row.id
         /\ createdLog[i].key = row.id
         /\ createdLog[i].amount = row.amount
         /\ createdLog[i].status = "NEW"
  /\ \A i, j \in DOMAIN createdLog :
       createdLog[i].payment_id = createdLog[j].payment_id => i = j
  /\ \A c \in idemCache :
       \E row \in payments : c.v.id = row.id /\ c.k = IdemKey(row.idempotency_key)

\* an INSERT has failed (its uuid is used up and has no row), and the rows
\* there are have a record each
C38_Witness ==
  /\ Cardinality(payments) < nextId - 1
  /\ payments # {}
  /\ Len(createdLog) = Cardinality(payments)
  /\ \A r \in Reqs : req[r].pc = "idle"

\* C39: a velocity counter that exists carries an expiry: once the handler
\* is past the EXPIRE call that follows a first increment, whether that call
\* succeeded or failed, no counter is left without a TTL.
C39_CounterHasTTL ==
  \A c \in Customers :
    (velocity[c].value > 0 /\ ~(fraud.pc = "expire" /\ fraud.customer = c))
      => velocity[c].ttl

\* C40: GET /payments/:id/state answers 200 with the state for every payment
\* that has a state row, whatever the state and also while fraud_decision is
\* null, and 404 exactly for a payment that has no row.
C40_StateReadable ==
  \A p \in PaymentIdsB :
    getPaymentState(payment_states, p) =
      IF StateRowsOf(p) = {}
      THEN [code |-> 404, state |-> ""]
      ELSE [code |-> 200, state |-> StateRowOf(p).state]

====
